---------------------------- MODULE Spec2Model ----------------------------
(***************************************************************************)
(* A model of src/main.py (class PDFParser and main): the heading          *)
(* classifier, the text cleaner, the paragraph segmenter, the table and    *)
(* chart extractors, the context propagation of parse_pdf and the command  *)
(* line driver.                                                            *)
(*                                                                         *)
(* A Python str is a sequence of one-character strings.  An Optional value *)
(* is a sequence of length 0 (None) or 1 (the value).  Vertical            *)
(* coordinates are integers: a raw y0 counts hundredths of a unit, a line  *)
(* key (round(y0, 1)) counts tenths of a unit.                             *)
(***************************************************************************)
EXTENDS Integers, Sequences, FiniteSets, TLC

(***************************************************************************)
(* Character classes of Python's re module and of str.strip().             *)
(***************************************************************************)
Digit == {"0", "1", "2", "3", "4", "5", "6", "7", "8", "9"}

Upper == {"A", "B", "C", "D", "E", "F", "G", "H", "I", "J", "K", "L", "M",
          "N", "O", "P", "Q", "R", "S", "T", "U", "V", "W", "X", "Y", "Z"}

Lower == {"a", "b", "c", "d", "e", "f", "g", "h", "i", "j", "k", "l", "m",
          "n", "o", "p", "q", "r", "s", "t", "u", "v", "w", "x", "y", "z"}

Letter == Upper \cup Lower

\* \s of re and the characters str.strip() removes
Whitespace == {" ", "\t", "\n", "\r", "\f"}

None == << >>

Some(v) == << v >>

\* Python truthiness of an Optional[str]: neither None nor ""
Truthy(opt) == opt # None /\ opt[1] # << >>

Min(a, b) == IF a <= b THEN a ELSE b

Abs(a) == IF a < 0 THEN -a ELSE a

(***************************************************************************)
(* String helpers.                                                         *)
(***************************************************************************)
\* The first index j >= i with s[j] outside class C (Len(s)+1 if none): where
\* a greedy C* starting at i stops.
SkipWhile(s, i, C) ==
    IF i > Len(s) THEN i
    ELSE CHOOSE j \in i..(Len(s) + 1) :
             /\ \A k \in i..(j - 1) : s[k] \in C
             /\ (j = Len(s) + 1 \/ s[j] \notin C)

\* Whether s holds the literal lit at index i.
HasAt(s, i, lit) ==
    /\ i + Len(lit) - 1 <= Len(s)
    /\ \A k \in 1..Len(lit) : s[i + k - 1] = lit[k]

\* str.strip()
Strip(s) ==
    LET a == SkipWhile(s, 1, Whitespace)
    IN  IF a > Len(s) THEN << >>
        ELSE LET b == CHOOSE j \in a..Len(s) :
                          /\ s[j] \notin Whitespace
                          /\ \A k \in (j + 1)..Len(s) : s[k] \in Whitespace
             IN  SubSeq(s, a, b)

\* str.split(sep) for a one-character separator
RECURSIVE Split(_, _)
Split(s, sep) ==
    IF \A k \in 1..Len(s) : s[k] # sep THEN << s >>
    ELSE LET p == CHOOSE j \in 1..Len(s) :
                      s[j] = sep /\ \A k \in 1..(j - 1) : s[k] # sep
         IN  << SubSeq(s, 1, p - 1) >> \o Split(SubSeq(s, p + 1, Len(s)), sep)

\* sep.join(parts)
RECURSIVE Join(_, _)
Join(parts, sep) ==
    IF parts = << >> THEN << >>
    ELSE IF Len(parts) = 1 THEN parts[1]
    ELSE parts[1] \o sep \o Join(Tail(parts), sep)

\* ''.join(parts)
RECURSIVE Concat(_)
Concat(parts) ==
    IF parts = << >> THEN << >> ELSE parts[1] \o Concat(Tail(parts))

(***************************************************************************)
(* extract_sections_and_subsections: the six patterns, each applied with   *)
(* re.match to a stripped line that holds no "\n" (the lines come from     *)
(* text.split('\n')), so $ is the end of the line.  Each returns the       *)
(* stripped group 1, or None.                                              *)
(***************************************************************************)
\* r'^\s*(\d+\.?\s*[A-Z][A-Za-z\s]+)'
SectionPattern1(line) ==
    LET i0 == SkipWhile(line, 1, Whitespace)
        i1 == SkipWhile(line, i0, Digit)
        i2 == IF i1 <= Len(line) /\ line[i1] = "." THEN i1 + 1 ELSE i1
        i3 == SkipWhile(line, i2, Whitespace)
        i4 == SkipWhile(line, i3 + 1, Letter \cup Whitespace)
    IN  IF /\ i1 > i0
           /\ i3 <= Len(line)
           /\ line[i3] \in Upper
           /\ i4 > i3 + 1
        THEN Some(Strip(SubSeq(line, i0, i4 - 1)))
        ELSE None

\* r'^\s*([A-Z][A-Z\s]+)\s*$'
SectionPattern2(line) ==
    LET i0 == SkipWhile(line, 1, Whitespace)
        i1 == SkipWhile(line, i0 + 1, Upper \cup Whitespace)
    IN  IF /\ i0 <= Len(line)
           /\ line[i0] \in Upper
           /\ i1 > i0 + 1
           /\ i1 = Len(line) + 1
        THEN Some(Strip(SubSeq(line, i0, Len(line))))
        ELSE None

\* r'^\s*([A-Z][a-z][A-Za-z\s]+)\s*$'
SectionPattern3(line) ==
    LET i0 == SkipWhile(line, 1, Whitespace)
        i1 == SkipWhile(line, i0 + 2, Letter \cup Whitespace)
    IN  IF /\ i0 + 1 <= Len(line)
           /\ line[i0] \in Upper
           /\ line[i0 + 1] \in Lower
           /\ i1 > i0 + 2
           /\ i1 = Len(line) + 1
        THEN Some(Strip(SubSeq(line, i0, Len(line))))
        ELSE None

\* r'^\s*(\d+\.\d+\.?\s*[A-Za-z][A-Za-z\s]+)'
SubsectionPattern1(line) ==
    LET i0 == SkipWhile(line, 1, Whitespace)
        i1 == SkipWhile(line, i0, Digit)
        i2 == SkipWhile(line, i1 + 1, Digit)
        i3 == IF i2 <= Len(line) /\ line[i2] = "." THEN i2 + 1 ELSE i2
        i4 == SkipWhile(line, i3, Whitespace)
        i5 == SkipWhile(line, i4 + 1, Letter \cup Whitespace)
    IN  IF /\ i1 > i0
           /\ i1 <= Len(line)
           /\ line[i1] = "."
           /\ i2 > i1 + 1
           /\ i4 <= Len(line)
           /\ line[i4] \in Letter
           /\ i5 > i4 + 1
        THEN Some(Strip(SubSeq(line, i0, i5 - 1)))
        ELSE None

\* r'^\s*([a-z]\.\s*[A-Za-z][A-Za-z\s]+)'
SubsectionPattern2(line) ==
    LET i0 == SkipWhile(line, 1, Whitespace)
        i1 == SkipWhile(line, i0 + 2, Whitespace)
        i2 == SkipWhile(line, i1 + 1, Letter \cup Whitespace)
    IN  IF /\ i0 + 1 <= Len(line)
           /\ line[i0] \in Lower
           /\ line[i0 + 1] = "."
           /\ i1 <= Len(line)
           /\ line[i1] \in Letter
           /\ i2 > i1 + 1
        THEN Some(Strip(SubSeq(line, i0, i2 - 1)))
        ELSE None

\* r'^\s*([A-Z][a-z][A-Za-z\s]+)\s*$'
SubsectionPattern3(line) == SectionPattern3(line)

\* for pattern in section_patterns: the first pattern that matches
MatchSection(line) ==
    IF SectionPattern1(line) # None THEN SectionPattern1(line)
    ELSE IF SectionPattern2(line) # None THEN SectionPattern2(line)
    ELSE SectionPattern3(line)

\* for pattern in subsection_patterns: the first pattern that matches
MatchSubsection(line) ==
    IF SubsectionPattern1(line) # None THEN SubsectionPattern1(line)
    ELSE IF SubsectionPattern2(line) # None THEN SubsectionPattern2(line)
    ELSE SubsectionPattern3(line)

\* A variant of SubsectionGuard that does not ask for a section
SubsectionGuardNoSection(section, sub_section) == ~Truthy(sub_section)

\* The guard of the sub_section assignment: `match and not sub_section and section`
SubsectionGuard(section, sub_section) == ~Truthy(sub_section) /\ Truthy(section)

\* One pass of the loop body over a line of lines[:5]; h = [section, sub_section]
HeadingStep(h, rawline) ==
    LET line == Strip(rawline)
        sec  == IF MatchSection(line) # None /\ ~Truthy(h.section)
                THEN MatchSection(line) ELSE h.section
        sub  == IF MatchSubsection(line) # None /\ SubsectionGuard(sec, h.sub_section)
                THEN MatchSubsection(line) ELSE h.sub_section
    IN  IF line = << >> THEN h ELSE [section |-> sec, sub_section |-> sub]

\* A variant of HeadingLines that takes the first 5 lines that are not blank
HeadingLinesNonEmpty(text) ==
    LET lines == SelectSeq(Split(text, "\n"), LAMBDA l : Strip(l) # << >>)
    IN  SubSeq(lines, 1, Min(5, Len(lines)))

\* lines[:5]
HeadingLines(text) ==
    LET lines == Split(text, "\n") IN SubSeq(lines, 1, Min(5, Len(lines)))

RECURSIVE HeadingScan(_, _)
HeadingScan(h, lines) ==
    IF lines = << >> THEN h ELSE HeadingScan(HeadingStep(h, lines[1]), Tail(lines))

extract_sections_and_subsections(text) ==
    HeadingScan([section |-> None, sub_section |-> None], HeadingLines(text))

(***************************************************************************)
(* clean_text                                                              *)
(***************************************************************************)
\* A variant of CollapseWhitespace for the pattern r'\s\s': pairs, not runs
RECURSIVE CollapsePairs(_)
CollapsePairs(s) ==
    IF s = << >> THEN << >>
    ELSE IF Len(s) >= 2 /\ s[1] \in Whitespace /\ s[2] \in Whitespace
         THEN << " " >> \o CollapsePairs(SubSeq(s, 3, Len(s)))
         ELSE << s[1] >> \o CollapsePairs(Tail(s))

\* re.sub(r'\s+', ' ', text)
RECURSIVE CollapseWhitespace(_)
CollapseWhitespace(s) ==
    IF s = << >> THEN << >>
    ELSE IF s[1] \in Whitespace
         THEN << " " >> \o
              CollapseWhitespace(SubSeq(s, SkipWhile(s, 1, Whitespace), Len(s)))
         ELSE << s[1] >> \o CollapseWhitespace(Tail(s))

\* The end (exclusive) of a whitespace run b..c-1 cut back to its last "\n":
\* where \s*\n stops, 0 if the run holds no "\n".
EndAtLastNewline(s, b, c) ==
    IF \A k \in b..(c - 1) : s[k] # "\n" THEN 0
    ELSE 1 + CHOOSE k \in b..(c - 1) :
                 s[k] = "\n" /\ \A m \in (k + 1)..(c - 1) : s[m] # "\n"

\* r'\n\s*\d+\s*\n' at index i: the index after the match, 0 if none
MatchPageNumber(s, i) ==
    LET a == SkipWhile(s, i + 1, Whitespace)
        b == SkipWhile(s, a, Digit)
        c == SkipWhile(s, b, Whitespace)
    IN  IF s[i] = "\n" /\ b > a THEN EndAtLastNewline(s, b, c) ELSE 0

\* r'\n\s*Page \d+ of \d+\s*\n' at index i (flags=0: case-sensitive)
MatchPageOf(s, i) ==
    LET a == SkipWhile(s, i + 1, Whitespace)
        b == SkipWhile(s, a + 5, Digit)
        c == SkipWhile(s, b + 4, Digit)
        d == SkipWhile(s, c, Whitespace)
    IN  IF /\ s[i] = "\n"
           /\ HasAt(s, a, << "P", "a", "g", "e", " " >>)
           /\ b > a + 5
           /\ HasAt(s, b, << " ", "o", "f", " " >>)
           /\ c > b + 4
        THEN EndAtLastNewline(s, c, d)
        ELSE 0

\* re.sub(r'\n\s*\d+\s*\n', '\n', text): every match, left to right
RECURSIVE SubPageNumber(_, _)
SubPageNumber(s, i) ==
    IF i > Len(s) THEN << >>
    ELSE IF MatchPageNumber(s, i) # 0
         THEN << "\n" >> \o SubPageNumber(s, MatchPageNumber(s, i))
         ELSE << s[i] >> \o SubPageNumber(s, i + 1)

\* re.sub(r'\n\s*Page \d+ of \d+\s*\n', '\n', text, re.IGNORECASE): the fourth
\* positional argument of re.sub is count, so at most `count` matches are replaced
RECURSIVE SubPageOf(_, _, _)
SubPageOf(s, i, count) ==
    IF i > Len(s) THEN << >>
    ELSE IF count > 0 /\ MatchPageOf(s, i) # 0
         THEN << "\n" >> \o SubPageOf(s, MatchPageOf(s, i), count - 1)
         ELSE << s[i] >> \o SubPageOf(s, i + 1, count)

\* re.IGNORECASE, passed where re.sub takes count
IGNORECASE == 2

clean_text(text) ==
    IF text = << >> THEN << >>
    ELSE Strip(SubPageOf(SubPageNumber(CollapseWhitespace(text), 1), 1, IGNORECASE))

(***************************************************************************)
(* analyze_content_blocks.  A char is [text, y0]; y0 counts hundredths.    *)
(***************************************************************************)
\* round(char['y0'], 1), in tenths (the inputs hold no y0 ending in 5
\* hundredths, where Python rounds the binary float either way)
Round1(y0) == (y0 + 5) \div 10

\* The units of `abs(y - current_y_group) > 20`
ParagraphGap == 20

\* The characters of `len(paragraph_text.strip()) > 10`
MinParagraphLength == 10

\* The line keys, largest first: sorted(lines.items(), key=lambda x: -x[0])
RECURSIVE SortDescending(_)
SortDescending(keys) ==
    IF keys = {} THEN << >>
    ELSE LET m == CHOOSE k \in keys : \A o \in keys : o <= k
         IN  << m >> \o SortDescending(keys \ {m})

\* lines[y]: the chars of key y, in their original order
LineChars(chars, y) == SelectSeq(chars, LAMBDA c : Round1(c.y0) = y)

\* sorted_lines: << [y, chars], ... >>
SortedLines(chars) ==
    LET ys == SortDescending({ Round1(chars[i].y0) : i \in 1..Len(chars) })
    IN  [ k \in 1..Len(ys) |-> [y |-> ys[k], chars |-> LineChars(chars, ys[k])] ]

\* ''.join([char['text'] for char in chars]).strip()
LineText(chars) == Strip([ i \in 1..Len(chars) |-> chars[i].text ])

\* A variant of NewParagraph that splits at a gap of exactly ParagraphGap too
NewParagraphInclusive(y, current_y_group) ==
    current_y_group # None /\ Abs(y - current_y_group[1]) >= ParagraphGap * 10

\* Whether a line at y opens a new paragraph: the test of line 206
NewParagraph(y, current_y_group) ==
    current_y_group # None /\ Abs(y - current_y_group[1]) > ParagraphGap * 10

\* Whether a paragraph text is long enough to be kept: lines 209 and 227
LongEnough(paragraph_text) == Len(Strip(paragraph_text)) > MinParagraphLength

\* The paragraph block of a buffer, appended when it is long enough
FlushParagraph(content_blocks, current_paragraph) ==
    LET paragraph_text == Join(current_paragraph, << " " >>)
        h == extract_sections_and_subsections(paragraph_text)
    IN  IF current_paragraph # << >> /\ LongEnough(paragraph_text)
        THEN Append(content_blocks,
                    [type |-> "paragraph", section |-> h.section,
                     sub_section |-> h.sub_section,
                     text |-> clean_text(paragraph_text)])
        ELSE content_blocks

\* The body of `for y, chars in sorted_lines`;
\* st = [current_paragraph, current_y_group, content_blocks]
SegmentStep(st, line) ==
    LET line_text == LineText(line.chars)
        flush == NewParagraph(line.y, st.current_y_group)
    IN  IF line_text = << >> THEN st
        ELSE [current_paragraph |->
                  Append(IF flush THEN << >> ELSE st.current_paragraph, line_text),
              current_y_group |-> Some(line.y),
              content_blocks |->
                  IF flush THEN FlushParagraph(st.content_blocks, st.current_paragraph)
                  ELSE st.content_blocks]

SegmentStart ==
    [current_paragraph |-> << >>, current_y_group |-> None, content_blocks |-> << >>]

RECURSIVE SegmentScan(_, _)
SegmentScan(st, lines) ==
    IF lines = << >> THEN st ELSE SegmentScan(SegmentStep(st, lines[1]), Tail(lines))

analyze_content_blocks(page) ==
    IF page.chars = << >> THEN << >>
    ELSE LET st == SegmentScan(SegmentStart, SortedLines(page.chars))
         IN  FlushParagraph(st.content_blocks, st.current_paragraph)

(***************************************************************************)
(* extract_tables_from_page.  The page's camelot field is what             *)
(* camelot.read_pdf gives for it: the DataFrames (sequences of rows of     *)
(* cells) and where an exception is raised, if anywhere: fail = None (no   *)
(* exception), Some(0) (read_pdf raises) or Some(k) (the k-th table raises *)
(* while it is converted).                                                 *)
(***************************************************************************)
\* str(n) for n >= 0
RECURSIVE Decimal(_)
Decimal(n) ==
    LET d == << "0", "1", "2", "3", "4", "5", "6", "7", "8", "9" >>
    IN  IF n < 10 THEN << d[n + 1] >> ELSE Decimal(n \div 10) \o << d[(n % 10) + 1] >>

\* table.df.empty
DfEmpty(df) == df = << >> \/ df[1] = << >>

\* [row for row in table_data if any(str(cell).strip() for cell in row)]
NonBlankRows(df) ==
    SelectSeq(df, LAMBDA row : \E c \in 1..Len(row) : Strip(row[c]) # << >>)

\* f"Table {i+1} from page {page_num}", i the 0-based index of the table
TableDescription(i, page_num) ==
    << "T", "a", "b", "l", "e", " " >> \o Decimal(i + 1) \o
    << " ", "f", "r", "o", "m", " ", "p", "a", "g", "e", " " >> \o Decimal(page_num)

\* The blocks of the DataFrames dfs[1..upto]
RECURSIVE TableBlocks(_, _, _)
TableBlocks(dfs, upto, page_num) ==
    IF upto = 0 THEN << >>
    ELSE LET before == TableBlocks(dfs, upto - 1, page_num)
             table_data == NonBlankRows(dfs[upto])
         IN  IF DfEmpty(dfs[upto]) \/ table_data = << >> THEN before
             ELSE Append(before,
                         [type |-> "table", section |-> None, sub_section |-> None,
                          description |-> TableDescription(upto - 1, page_num),
                          table_data |-> table_data])

\* The tables the try block has appended when it is left: all of them, or those
\* before the one that raised
TablesKept(camelot) ==
    IF camelot.fail = None THEN Len(camelot.tables)
    ELSE IF camelot.fail[1] = 0 THEN 0 ELSE camelot.fail[1] - 1

extract_tables_from_page(page, page_num) ==
    TableBlocks(page.camelot.tables, TablesKept(page.camelot), page_num)

(***************************************************************************)
(* detect_charts_in_page.  An image is [width, height, y1] (y1 in          *)
(* hundredths); the page's image_fail says where an exception is raised:   *)
(* None, Some(0) (reading page.images) or Some(k) (at the k-th image).     *)
(***************************************************************************)
\* `width > 100 and height > 100`
ChartMinSize == 100

\* `abs(text_y - y1) < 50`
CaptionRange == 50

\* nearby_text[:100]
CaptionMax == 100

\* A variant of ChartLike that takes an image of exactly ChartMinSize too
ChartLikeInclusive(image) ==
    image.width >= ChartMinSize /\ image.height >= ChartMinSize

ChartLike(image) == image.width > ChartMinSize /\ image.height > ChartMinSize

\* nearby_text: the text of the chars within CaptionRange of the image's y1
NearbyText(chars, image) ==
    LET near == SelectSeq(chars, LAMBDA c : Abs(c.y0 - image.y1) < CaptionRange * 100)
    IN  [ i \in 1..Len(near) |-> near[i].text ]

\* f"Chart/Image {i+1} - {nearby_text[:100]}..." if nearby_text else f"Chart/Image {i+1}"
ChartDescription(i, nearby_text) ==
    LET label == << "C", "h", "a", "r", "t", "/", "I", "m", "a", "g", "e", " " >>
                     \o Decimal(i + 1)
    IN  IF nearby_text = << >> THEN label
        ELSE label \o << " ", "-", " " >>
                   \o SubSeq(nearby_text, 1, Min(CaptionMax, Len(nearby_text)))
                   \o << ".", ".", "." >>

\* The blocks of the images images[1..upto]
RECURSIVE ChartBlocks(_, _, _)
ChartBlocks(images, upto, chars) ==
    IF upto = 0 THEN << >>
    ELSE LET before == ChartBlocks(images, upto - 1, chars)
             image == images[upto]
         IN  IF ChartLike(image)
             THEN Append(before,
                         [type |-> "chart", section |-> None, sub_section |-> None,
                          description |->
                              ChartDescription(upto - 1, NearbyText(chars, image)),
                          table_data |-> << >>,
                          dimensions |-> [width |-> image.width,
                                          height |-> image.height]])
             ELSE before

\* The images the try block has gone through when it is left
ChartsKept(page) ==
    IF page.image_fail = None THEN Len(page.images)
    ELSE IF page.image_fail[1] = 0 THEN 0 ELSE page.image_fail[1] - 1

detect_charts_in_page(page) == ChartBlocks(page.images, ChartsKept(page), page.chars)

(***************************************************************************)
(* parse_pdf: the context of a table or chart block.                       *)
(***************************************************************************)
\* A variant of AssignContext that scans text_blocks forward
RECURSIVE AssignContextFirst(_, _)
AssignContextFirst(block, text_blocks) ==
    IF text_blocks = << >> THEN block
    ELSE IF Truthy(text_blocks[1].section)
         THEN [block EXCEPT !.section = text_blocks[1].section,
                            !.sub_section = text_blocks[1].sub_section]
         ELSE AssignContextFirst(block, Tail(text_blocks))

\* for block in reversed(text_blocks): if block.get("section"): ...; break
RECURSIVE AssignContext(_, _)
AssignContext(block, text_blocks) ==
    IF text_blocks = << >> THEN block
    ELSE LET last == text_blocks[Len(text_blocks)]
         IN  IF Truthy(last.section)
             THEN [block EXCEPT !.section = last.section,
                                !.sub_section = last.sub_section]
             ELSE AssignContext(block, SubSeq(text_blocks, 1, Len(text_blocks) - 1))

\* for table in tables: ... / for chart in charts: ...
AssignContextAll(blocks, text_blocks) ==
    [ i \in 1..Len(blocks) |-> AssignContext(blocks[i], text_blocks) ]

\* A variant of Extend that puts the new blocks first
ExtendFront(page_content, blocks) == blocks \o page_content

\* page_content.extend(blocks)
Extend(page_content, blocks) == page_content \o blocks

(***************************************************************************)
(* The state.  parse_pdf and main: pc, the input (path_exists, writable,   *)
(* doc: the pages pdfplumber yields), the locals of parse_pdf and what     *)
(* main leaves behind (saved: the output file, exit_code).  The loop of    *)
(* analyze_content_blocks: sorted_lines, line_i, seg.  The loop of         *)
(* extract_sections_and_subsections: text, hd_lines, hd_i, hd.  clean_text *)
(* applied once and twice: cleaned, recleaned.                             *)
(***************************************************************************)
VARIABLES pc, path_exists, writable, doc, page_index, page_num, text_blocks,
          tables, charts, page_content, result, saved, exit_code, warnings,
          sorted_lines, line_i, seg, text, hd_lines, hd_i, hd, cleaned, recleaned

pvars == << path_exists, writable, doc, page_index, page_num, text_blocks, tables,
            charts, page_content, result, saved, exit_code, warnings >>

svars == << sorted_lines, line_i, seg >>

hvars == << text, hd_lines, hd_i, hd, cleaned, recleaned >>

vars == << pc, pvars, svars, hvars >>

\* The pages parse_pdf handles at most
MaxPages == 3

\* All sequences over S of length at most n
SeqsUpTo(S, n) == UNION { [1..k -> S] : k \in 0..n }

\* The chars of a run of text t on the baseline y0
CharsOf(t, y0) == [ i \in 1..Len(t) |-> [text |-> t[i], y0 |-> y0] ]

TextIntro == << "1", ".", " ", "I", "n", "t", "r", "o", " ", "t", "e", "x", "t" >>

TextSummary == << "S", "u", "m", "m", "a", "r", "y", " ", "N", "o", "t", "e" >>

TextPlain == << "p", "l", "a", "i", "n", " ", "t", "e", "x", "t", ",", " ", "h", "e", "r", "e" >>

\* Three paragraphs: sections "1. Intro text", None, "Summary Note"
CharsHeadingLast ==
    CharsOf(TextIntro, 70000) \o CharsOf(TextPlain, 60000) \o CharsOf(TextSummary, 50000)

\* Three paragraphs: sections "Summary Note", "1. Intro text" (no sub-section), None
CharsHeadingMiddle ==
    CharsOf(TextSummary, 70000) \o CharsOf(TextIntro, 60000) \o CharsOf(TextPlain, 50000)

\* One paragraph, no section
CharsNoHeading == CharsOf(TextPlain, 70000)

Image(w, h, y1) == [width |-> w, height |-> h, y1 |-> y1]

CellX == << "x" >>

CellBlank == << " " >>

\* A DataFrame with a blank row, and one with blank rows only
DfData == << << CellX, << >> >>, << CellBlank, << >> >> >>

DfBlank == << << CellBlank, << >> >> >>

Camelot(dfs, fail) == [tables |-> dfs, fail |-> fail]

Page(chars, images, image_fail, camelot) ==
    [chars |-> chars, images |-> images, image_fail |-> image_fail, camelot |-> camelot]

\* The pages of the documents of Spec
PageSamples ==
    { Page(CharsHeadingLast,
           << Image(150, 150, 50000), Image(50, 200, 0), Image(100, 150, 0) >>, None,
           Camelot(<< DfData, DfBlank, DfData >>, None)),
      Page(CharsHeadingMiddle,
           << Image(101, 101, 0), Image(150, 100, 0) >>, None,
           Camelot(<< DfData >>, None)),
      Page(CharsNoHeading,
           << Image(150, 150, 0), Image(120, 130, 70000) >>, Some(2),
           Camelot(<< DfData, DfData >>, Some(2))),
      Page(CharsHeadingLast, << Image(150, 150, 0) >>, Some(0),
           Camelot(<< DfData >>, Some(0))),
      Page(<< >>, << >>, None, Camelot(<< >>, None)),
      Page(CharsNoHeading, << Image(200, 300, 0) >>, None,
           Camelot(<< << >>, DfData >>, None)) }

PipelineIdle ==
    /\ path_exists = TRUE /\ writable = TRUE /\ doc = << >>
    /\ page_index = 0 /\ page_num = 0
    /\ text_blocks = << >> /\ tables = << >> /\ charts = << >> /\ page_content = << >>
    /\ result = << >> /\ saved = None /\ exit_code = None /\ warnings = << >>

SegmentIdle == sorted_lines = << >> /\ line_i = 0 /\ seg = SegmentStart

NoHeading == [section |-> None, sub_section |-> None]

HeadingIdle ==
    /\ text = << >> /\ hd_lines = << >> /\ hd_i = 0 /\ hd = NoHeading
    /\ cleaned = None /\ recleaned = None

(***************************************************************************)
(* main and parse_pdf                                                      *)
(***************************************************************************)
\* A variant of FileMissing without the test
FileMissingNever(exists) == FALSE

\* `if not self.pdf_path.exists()`
FileMissing(exists) == ~exists

\* enumerate(pdf.pages, 1): the number of the first page
FirstPageNumber == 1

\* A variant of FailureEscapes without the except clauses
FailureEscapesAlways(fail) == TRUE

\* `except Exception` of extract_tables_from_page and detect_charts_in_page:
\* whether a failure of the extraction leaves the function as an exception
FailureEscapes(fail) == FALSE

\* parse_pdf up to the page loop
ParseStart ==
    /\ pc = "main"
    /\ IF FileMissing(path_exists)
       THEN pc' = "except" /\ result' = result
       ELSE pc' = "pages" /\ result' = << >>
    /\ UNCHANGED << path_exists, writable, doc, page_index, page_num, text_blocks,
                    tables, charts, page_content, saved, exit_code, warnings >>
    /\ UNCHANGED << svars, hvars >>

\* for page_num, page in enumerate(pdf.pages, 1): page_content = []
NextPage ==
    /\ pc = "pages"
    /\ page_index < Len(doc)
    /\ page_index' = page_index + 1
    /\ page_num' = FirstPageNumber + page_index
    /\ page_content' = << >>
    /\ pc' = "paragraphs"
    /\ UNCHANGED << path_exists, writable, doc, text_blocks, tables, charts, result,
                    saved, exit_code, warnings >>
    /\ UNCHANGED << svars, hvars >>

\* text_blocks = self.analyze_content_blocks(page); page_content.extend(text_blocks)
ExtractParagraphs ==
    /\ pc = "paragraphs"
    /\ text_blocks' = analyze_content_blocks(doc[page_index])
    /\ page_content' = Extend(page_content, text_blocks')
    /\ pc' = "tables"
    /\ UNCHANGED << path_exists, writable, doc, page_index, page_num, tables, charts,
                    result, saved, exit_code, warnings >>
    /\ UNCHANGED << svars, hvars >>

\* tables = self.extract_tables_from_page(page_num)
ExtractTables ==
    /\ pc = "tables"
    /\ LET fail == doc[page_index].camelot.fail
       IN  IF fail # None /\ FailureEscapes(fail)
           THEN pc' = "except" /\ UNCHANGED << tables, warnings >>
           ELSE /\ tables' = extract_tables_from_page(doc[page_index], page_num)
                /\ warnings' = IF fail = None THEN warnings
                               ELSE Append(warnings, << "tables", page_num >>)
                /\ pc' = "table_context"
    /\ UNCHANGED << path_exists, writable, doc, page_index, page_num, text_blocks,
                    charts, page_content, result, saved, exit_code >>
    /\ UNCHANGED << svars, hvars >>

\* for table in tables: ...; page_content.extend(tables)
TableContext ==
    /\ pc = "table_context"
    /\ tables' = AssignContextAll(tables, text_blocks)
    /\ page_content' = Extend(page_content, tables')
    /\ pc' = "charts"
    /\ UNCHANGED << path_exists, writable, doc, page_index, page_num, text_blocks,
                    charts, result, saved, exit_code, warnings >>
    /\ UNCHANGED << svars, hvars >>

\* charts = self.detect_charts_in_page(page)
DetectCharts ==
    /\ pc = "charts"
    /\ LET fail == doc[page_index].image_fail
       IN  IF fail # None /\ FailureEscapes(fail)
           THEN pc' = "except" /\ UNCHANGED << charts, warnings >>
           ELSE /\ charts' = detect_charts_in_page(doc[page_index])
                /\ warnings' = IF fail = None THEN warnings
                               ELSE Append(warnings, << "charts", page_num >>)
                /\ pc' = "chart_context"
    /\ UNCHANGED << path_exists, writable, doc, page_index, page_num, text_blocks,
                    tables, page_content, result, saved, exit_code >>
    /\ UNCHANGED << svars, hvars >>

\* for chart in charts: ...; page_content.extend(charts)
ChartContext ==
    /\ pc = "chart_context"
    /\ charts' = AssignContextAll(charts, text_blocks)
    /\ page_content' = Extend(page_content, charts')
    /\ pc' = "append"
    /\ UNCHANGED << path_exists, writable, doc, page_index, page_num, text_blocks,
                    tables, result, saved, exit_code, warnings >>
    /\ UNCHANGED << svars, hvars >>

\* result["pages"].append({"page_number": page_num, "content": page_content})
AppendPage ==
    /\ pc = "append"
    /\ result' = Append(result, [page_number |-> page_num, content |-> page_content])
    /\ pc' = "pages"
    /\ UNCHANGED << path_exists, writable, doc, page_index, page_num, text_blocks,
                    tables, charts, page_content, saved, exit_code, warnings >>
    /\ UNCHANGED << svars, hvars >>

\* The page loop ends: return result
ParseReturn ==
    /\ pc = "pages"
    /\ page_index = Len(doc)
    /\ pc' = "save"
    /\ UNCHANGED << pvars, svars, hvars >>

\* pdf_parser.save_json(extracted_data, args.output): open() raises on a path
\* that cannot be written
SaveJson ==
    /\ pc = "save"
    /\ IF writable
       THEN saved' = Some([pages |-> result]) /\ pc' = "saved"
       ELSE saved' = saved /\ pc' = "except"
    /\ UNCHANGED << path_exists, writable, doc, page_index, page_num, text_blocks,
                    tables, charts, page_content, result, exit_code, warnings >>
    /\ UNCHANGED << svars, hvars >>

\* The two prints of main, and its return: exit code 0
ExitSuccess ==
    /\ pc = "saved"
    /\ exit_code' = Some(0)
    /\ pc' = "done"
    /\ UNCHANGED << path_exists, writable, doc, page_index, page_num, text_blocks,
                    tables, charts, page_content, result, saved, warnings >>
    /\ UNCHANGED << svars, hvars >>

\* except Exception as e: print(...); sys.exit(1)
ExitError ==
    /\ pc = "except"
    /\ exit_code' = Some(1)
    /\ pc' = "done"
    /\ UNCHANGED << path_exists, writable, doc, page_index, page_num, text_blocks,
                    tables, charts, page_content, result, saved, warnings >>
    /\ UNCHANGED << svars, hvars >>

\* A run of main on a document of at most MaxPages pages
Init ==
    /\ pc = "main"
    /\ path_exists \in BOOLEAN
    /\ writable \in BOOLEAN
    /\ doc \in IF path_exists THEN SeqsUpTo(PageSamples, MaxPages) ELSE { << >> }
    /\ page_index = 0 /\ page_num = 0
    /\ text_blocks = << >> /\ tables = << >> /\ charts = << >> /\ page_content = << >>
    /\ result = << >> /\ saved = None /\ exit_code = None /\ warnings = << >>
    /\ SegmentIdle
    /\ HeadingIdle

Next ==
    \/ ParseStart
    \/ NextPage
    \/ ExtractParagraphs
    \/ ExtractTables
    \/ TableContext
    \/ DetectCharts
    \/ ChartContext
    \/ AppendPage
    \/ ParseReturn
    \/ SaveJson
    \/ ExitSuccess
    \/ ExitError

Spec == Init /\ [][Next]_vars

(***************************************************************************)
(* detect_charts_in_page over generated image lists: a run of main on a    *)
(* one-page document.                                                      *)
(***************************************************************************)
\* The images of a page at most
MaxImages == 2

ImageSamples ==
    { Image(w, h, 0) : w \in {100, 101}, h \in {100, 101} }
        \cup { Image(50, 200, 0), Image(150, 150, 70000) }

ChartPages ==
    { Page(c, im, f, Camelot(<< >>, None)) :
        c \in { << >>, CharsNoHeading },
        im \in SeqsUpTo(ImageSamples, MaxImages),
        f \in { None, Some(0), Some(1) } }

InitCharts ==
    /\ pc = "main"
    /\ path_exists \in BOOLEAN
    /\ writable \in BOOLEAN
    /\ doc \in IF path_exists
               THEN { << p >> : p \in { q \in ChartPages :
                          q.image_fail = None \/ q.image_fail[1] <= Len(q.images) } }
               ELSE { << >> }
    /\ page_index = 0 /\ page_num = 0
    /\ text_blocks = << >> /\ tables = << >> /\ charts = << >> /\ page_content = << >>
    /\ result = << >> /\ saved = None /\ exit_code = None /\ warnings = << >>
    /\ SegmentIdle
    /\ HeadingIdle

SpecCharts == InitCharts /\ [][Next]_vars

(***************************************************************************)
(* analyze_content_blocks, line by line, over generated pages.             *)
(***************************************************************************)
\* The text lines of a page at most
MaxLines == 3

\* Baselines (hundredths): line keys 7000, 7000, 6900, 6800, 6799, 6000
SegYs == << 70000, 69996, 69000, 68000, 67990, 60000 >>

TextSpaced == << "a", " ", " ", " ", " ", " ", " ", " ", " ", " ", " ", "b" >>

TextBlank == << " ", " " >>

TextHeading == << "H", "e", "a", "d", "i", "n", "g", " ", "O", "n", "e" >>

TextShort == << "s", "h", "o", "r", "t" >>

SegTexts == { TextSpaced, TextBlank, TextHeading, TextShort }

\* The chars of the runs f[k] on the baselines SegYs[k], top of the page first
RECURSIVE RunsFrom(_, _)
RunsFrom(f, k) ==
    IF k > Len(SegYs) THEN << >>
    ELSE (IF f[k] = None THEN << >> ELSE CharsOf(f[k][1], SegYs[k])) \o RunsFrom(f, k + 1)

SegPages ==
    { Page(RunsFrom(f, 1), << >>, None, Camelot(<< >>, None)) :
        f \in { g \in [1..Len(SegYs) -> {None} \cup { Some(x) : x \in SegTexts }] :
                  Cardinality({ k \in 1..Len(SegYs) : g[k] # None }) <= MaxLines } }

InitSegment ==
    /\ pc = "seg_start"
    /\ path_exists = TRUE /\ writable = TRUE
    /\ doc \in { << p >> : p \in SegPages }
    /\ page_index = 1 /\ page_num = FirstPageNumber
    /\ text_blocks = << >> /\ tables = << >> /\ charts = << >> /\ page_content = << >>
    /\ result = << >> /\ saved = None /\ exit_code = None /\ warnings = << >>
    /\ SegmentIdle
    /\ HeadingIdle

\* Lines 180-199: no chars, or the sorted lines
SegmentBegin ==
    /\ pc = "seg_start"
    /\ IF doc[page_index].chars = << >>
       THEN /\ text_blocks' = << >>
            /\ pc' = "seg_done"
            /\ UNCHANGED svars
       ELSE /\ sorted_lines' = SortedLines(doc[page_index].chars)
            /\ line_i' = 1
            /\ seg' = SegmentStart
            /\ pc' = "seg_loop"
            /\ UNCHANGED text_blocks
    /\ UNCHANGED << path_exists, writable, doc, page_index, page_num, tables, charts,
                    page_content, result, saved, exit_code, warnings >>
    /\ UNCHANGED hvars

\* One pass of `for y, chars in sorted_lines`
SegmentLine ==
    /\ pc = "seg_loop"
    /\ line_i <= Len(sorted_lines)
    /\ seg' = SegmentStep(seg, sorted_lines[line_i])
    /\ line_i' = line_i + 1
    /\ UNCHANGED << pc, sorted_lines, pvars, hvars >>

\* Lines 224-237: the last paragraph, and the return
SegmentEnd ==
    /\ pc = "seg_loop"
    /\ line_i > Len(sorted_lines)
    /\ text_blocks' = FlushParagraph(seg.content_blocks, seg.current_paragraph)
    /\ pc' = "seg_done"
    /\ UNCHANGED << path_exists, writable, doc, page_index, page_num, tables, charts,
                    page_content, result, saved, exit_code, warnings >>
    /\ UNCHANGED << svars, hvars >>

NextSegment == SegmentBegin \/ SegmentLine \/ SegmentEnd

SpecSegment == InitSegment /\ [][NextSegment]_vars

(***************************************************************************)
(* extract_sections_and_subsections, line by line, over generated texts.   *)
(***************************************************************************)
\* The pieces of a text given to the heading classifier at most
MaxHeadPieces == 6

HeadPieces == { << "\n" >>, << "I", "N", "T", "R", "O" >>, << "1", ".", "1", " ", "K", "e", "y" >>, << "A", "b", "c" >> }

InitHeading ==
    /\ pc = "hd_start"
    /\ PipelineIdle
    /\ SegmentIdle
    /\ text \in { Concat(ps) : ps \in SeqsUpTo(HeadPieces, MaxHeadPieces) }
    /\ hd_lines = << >> /\ hd_i = 0 /\ hd = NoHeading
    /\ cleaned = None /\ recleaned = None

\* Lines 56-59
HeadingBegin ==
    /\ pc = "hd_start"
    /\ hd_lines' = HeadingLines(text)
    /\ hd_i' = 1
    /\ hd' = NoHeading
    /\ pc' = "hd_loop"
    /\ UNCHANGED << text, cleaned, recleaned, pvars, svars >>

\* One pass of `for line in lines[:5]`
HeadingLine ==
    /\ pc = "hd_loop"
    /\ hd_i <= Len(hd_lines)
    /\ hd' = HeadingStep(hd, hd_lines[hd_i])
    /\ hd_i' = hd_i + 1
    /\ UNCHANGED << pc, text, hd_lines, cleaned, recleaned, pvars, svars >>

\* return section, sub_section
HeadingReturn ==
    /\ pc = "hd_loop"
    /\ hd_i > Len(hd_lines)
    /\ pc' = "hd_done"
    /\ UNCHANGED << pvars, svars, hvars >>

NextHeading == HeadingBegin \/ HeadingLine \/ HeadingReturn

SpecHeading == InitHeading /\ [][NextHeading]_vars

(***************************************************************************)
(* clean_text, applied to a generated text and then to its own result.     *)
(***************************************************************************)
\* The pieces of a text given to clean_text at most
MaxCleanPieces == 5

CleanPieces ==
    { << "\n" >>, << " " >>, << "\t" >>, << "7" >>, << "P", "a", "g", "e", " ", "1", " ", "o", "f", " ", "2" >>, << "a", "b" >> }

InitClean ==
    /\ pc = "clean_start"
    /\ PipelineIdle
    /\ SegmentIdle
    /\ text \in { Concat(ps) : ps \in SeqsUpTo(CleanPieces, MaxCleanPieces) }
    /\ hd_lines = << >> /\ hd_i = 0 /\ hd = NoHeading
    /\ cleaned = None /\ recleaned = None

CleanOnce ==
    /\ pc = "clean_start"
    /\ cleaned' = Some(clean_text(text))
    /\ pc' = "cleaned"
    /\ UNCHANGED << text, hd_lines, hd_i, hd, recleaned, pvars, svars >>

CleanTwice ==
    /\ pc = "cleaned"
    /\ recleaned' = Some(clean_text(cleaned[1]))
    /\ pc' = "recleaned"
    /\ UNCHANGED << text, hd_lines, hd_i, hd, cleaned, pvars, svars >>

NextClean == CleanOnce \/ CleanTwice

SpecClean == InitClean /\ [][NextClean]_vars

(***************************************************************************)
(* Properties                                                              *)
(***************************************************************************)
ParagraphsOf(content) == SelectSeq(content, LAMBDA b : b.type = "paragraph")

IsTableOrChart(b) == b.type \in {"table", "chart"}

\* C1: in every page entry, a table or chart block has the section and the
\* sub_section of the last paragraph of that page whose section is not null, and
\* null for both when the page has no such paragraph.
C1_ContextFromLastSection ==
    \A p \in 1..Len(result) :
        LET content == result[p].content
            paras == ParagraphsOf(content)
            sectioned == { i \in 1..Len(paras) : paras[i].section # None }
        IN  \A k \in 1..Len(content) :
                IsTableOrChart(content[k]) =>
                    IF sectioned = {}
                    THEN content[k].section = None /\ content[k].sub_section = None
                    ELSE LET last == CHOOSE i \in sectioned : \A j \in sectioned : j <= i
                         IN  /\ content[k].section = paras[last].section
                             /\ content[k].sub_section = paras[last].sub_section

\* A page whose blocks inherit a section with a null sub_section, then a page with
\* paragraphs but no section whose blocks stay without one
C1_Witness ==
    \E p, q \in 1..Len(result) :
        /\ p < q
        /\ \E k \in 1..Len(result[p].content) :
               /\ IsTableOrChart(result[p].content[k])
               /\ result[p].content[k].section = Some(TextIntro)
               /\ result[p].content[k].sub_section = None
        /\ ParagraphsOf(result[q].content) # << >>
        /\ \E k \in 1..Len(result[q].content) :
               /\ IsTableOrChart(result[q].content[k])
               /\ result[q].content[k].section = None

\* C4: when table extraction or chart detection fails for a page, wherever in
\* the call, the list it returns for the page is empty.
C4_FailureGivesEmptyList ==
    /\ (pc = "table_context" /\ doc[page_index].camelot.fail # None) => tables = << >>
    /\ (pc = "chart_context" /\ doc[page_index].image_fail # None) => charts = << >>

\* C5: no table or chart failure leaves parse_pdf as an exception, and what
\* parse_pdf returns holds one entry per page, numbered from 1 in document order,
\* each with the paragraph blocks of its page.
C5_PagesSurviveFailures ==
    /\ (path_exists /\ pc = "except") => (page_index = Len(doc) /\ ~writable)
    /\ (path_exists /\ pc \in {"save", "saved", "except", "done"}) =>
           /\ Len(result) = Len(doc)
           /\ \A i \in 1..Len(result) :
                  /\ result[i].page_number = i
                  /\ ParagraphsOf(result[i].content) = analyze_content_blocks(doc[i])

\* parse_pdf has returned a document whose first page failed in both extractions
\* and whose second page has paragraphs
C5_Witness ==
    /\ pc = "save"
    /\ Len(result) >= 2
    /\ doc[1].camelot.fail # None
    /\ doc[1].image_fail # None
    /\ Len(warnings) >= 2
    /\ ParagraphsOf(result[2].content) # << >>

\* C6: when the input path does not exist no page is processed, nothing is
\* saved, and the run ends with exit code 1.
C6_MissingFileFailsFirst ==
    ~path_exists =>
        /\ pc \in {"main", "except", "done"}
        /\ page_index = 0
        /\ text_blocks = << >> /\ tables = << >> /\ charts = << >>
        /\ result = << >>
        /\ saved = None
        /\ (pc = "done" => exit_code = Some(1))

C6_Witness == ~path_exists /\ pc = "done" /\ exit_code = Some(1) /\ saved = None

TypeRank(b) ==
    CASE b.type = "paragraph" -> 1
      [] b.type = "table" -> 2
      [] b.type = "chart" -> 3

InTypeOrder(content) ==
    \A i, j \in 1..Len(content) : i < j => TypeRank(content[i]) <= TypeRank(content[j])

\* C7: every page entry lists its paragraph blocks, then its table blocks, then
\* its chart blocks; when table extraction starts the page's paragraphs are
\* complete, and when chart detection starts its tables are.
C7_ParagraphsTablesCharts ==
    /\ \A p \in 1..Len(result) : InTypeOrder(result[p].content)
    /\ pc = "tables" =>
           /\ text_blocks = analyze_content_blocks(doc[page_index])
           /\ page_content = text_blocks
    /\ pc = "charts" =>
           /\ \A k \in 1..Len(tables) : tables[k].type = "table"
           /\ page_content = text_blocks \o tables
    /\ pc = "append" =>
           /\ \A k \in 1..Len(charts) : charts[k].type = "chart"
           /\ page_content = text_blocks \o tables \o charts

\* A page entry with blocks of the three types
C7_Witness ==
    \E p \in 1..Len(result) :
        \A ty \in {"paragraph", "table", "chart"} :
            \E k \in 1..Len(result[p].content) : result[p].content[k].type = ty

\* C9: without a failure, detect_charts_in_page returns one chart block per image
\* wider and higher than 100, in the images' order, with null section and
\* sub_section, no table_data and the image's width and height.
C9_ChartsAreLargeImages ==
    (pc = "chart_context" /\ doc[page_index].image_fail = None) =>
        LET images == doc[page_index].images
            big == { i \in 1..Len(images) :
                       images[i].width > ChartMinSize /\ images[i].height > ChartMinSize }
        IN  /\ Len(charts) = Cardinality(big)
            /\ \A k \in 1..Len(charts) :
                   LET i == CHOOSE n \in big : Cardinality({ m \in big : m <= n }) = k
                   IN  /\ charts[k].type = "chart"
                       /\ charts[k].section = None
                       /\ charts[k].sub_section = None
                       /\ charts[k].table_data = << >>
                       /\ charts[k].dimensions =
                              [width |-> images[i].width, height |-> images[i].height]

\* Two images, one of them exactly 100 wide or high: one chart
C9_Witness ==
    /\ pc = "chart_context"
    /\ doc[page_index].image_fail = None
    /\ Len(doc[page_index].images) = 2
    /\ \E i \in 1..2 : doc[page_index].images[i].width = ChartMinSize
    /\ Len(charts) = 1

\* The largest j < i whose line is not empty after trimming, 0 if none
PreviousTextLine(i) ==
    LET before == { j \in 1..(i - 1) : LineText(sorted_lines[j].chars) # << >> }
    IN  IF before = {} THEN 0 ELSE CHOOSE j \in before : \A o \in before : o <= j

\* C2: a non-empty line joins the paragraph buffer of the previous non-empty
\* line exactly when their vertical coordinates differ by at most 20; otherwise
\* the buffer is flushed and the line starts a new one.  A line that is empty
\* after trimming changes nothing.
C2_GapRule ==
    [][ (pc = "seg_loop" /\ line_i <= Len(sorted_lines)) =>
          LET line == sorted_lines[line_i]
              line_text == LineText(line.chars)
              prev == PreviousTextLine(line_i)
              gap == Abs(line.y - sorted_lines[prev].y)
              old_text == Join(seg.current_paragraph, << " " >>)
          IN  /\ line_text = << >> => seg' = seg
              /\ (line_text # << >> /\ prev = 0) =>
                     seg'.current_paragraph = << line_text >>
              /\ (line_text # << >> /\ prev # 0) =>
                     /\ gap <= 200 <=>
                            seg'.current_paragraph =
                                Append(seg.current_paragraph, line_text)
                     /\ gap > 200 <=>
                            /\ seg'.current_paragraph = << line_text >>
                            /\ Len(seg'.content_blocks) =
                                   Len(seg.content_blocks) +
                                       (IF Len(old_text) > MinParagraphLength
                                        THEN 1 ELSE 0)
       ]_vars

\* Three non-empty lines at 700, 680 and 600: the first two in one paragraph,
\* flushed when the third arrives
C2_Witness ==
    /\ pc = "seg_loop"
    /\ Len(sorted_lines) = 3
    /\ line_i = 4
    /\ \A k \in 1..3 : LineText(sorted_lines[k].chars) # << >>
    /\ sorted_lines[1].y - sorted_lines[2].y = 200
    /\ sorted_lines[2].y - sorted_lines[3].y > 200
    /\ Len(seg.content_blocks) = 1
    /\ Len(seg.current_paragraph) = 1

\* C3: the text of every paragraph block analyze_content_blocks returns is
\* longer than 10 characters.
C3_KeptParagraphsAreLong ==
    \A k \in 1..Len(text_blocks) : Len(text_blocks[k].text) > MinParagraphLength

\* C8: cleaning a cleaned text changes nothing.
C8_CleanIdempotent == recleaned # None => recleaned = cleaned

\* A text that cleaning changed, cleaned twice
C8_Witness ==
    /\ pc = "recleaned"
    /\ cleaned[1] # text
    /\ cleaned[1] # << >>

\* C10: at every point of the scan a sub_section comes with a section, and a text
\* none of whose lines matches a section pattern gives (None, None).
C10_SubsectionNeedsSection ==
    /\ hd.sub_section # None => hd.section # None
    /\ (pc = "hd_done" /\
        \A k \in 1..Len(Split(text, "\n")) :
            MatchSection(Strip(Split(text, "\n")[k])) = None) => hd = NoHeading

\* A scan that met a line of sub-section shape and no section returns (None, None)
C10_Witness ==
    /\ pc = "hd_done"
    /\ hd = NoHeading
    /\ \E k \in 1..Len(hd_lines) : MatchSubsection(Strip(hd_lines[k])) # None

\* The lines of a sequence of lines that are not empty after trimming
NonBlank(lines) == SelectSeq(lines, LAMBDA l : Strip(l) # << >>)

\* The first n elements of a sequence
Take(lines, n) == SubSeq(lines, 1, Min(n, Len(lines)))

\* C11 as claimed: the scan examines the first 5 non-empty lines of the text,
\* blank lines not counting toward the 5.
C11_FirstFiveNonEmptyLines ==
    pc = "hd_done" =>
        hd = HeadingScan(NoHeading, Take(NonBlank(Split(text, "\n")), 5))

\* C11 as amended: the scan examines the non-empty lines among the first 5 lines
\* of the text, blank lines counting toward the 5, and no other line; a text
\* whose first 5 lines are blank gives (None, None) whatever follows them.
C11_FirstFiveLines ==
    /\ pc \in {"hd_loop", "hd_done"} =>
           /\ hd_lines = Take(Split(text, "\n"), 5)
           /\ hd_i <= Len(hd_lines) + 1
    /\ pc = "hd_done" =>
           /\ hd_i = Len(hd_lines) + 1
           /\ hd = HeadingScan(NoHeading, NonBlank(Take(Split(text, "\n"), 5)))
           /\ NonBlank(Take(Split(text, "\n"), 5)) = << >> => hd = NoHeading

\* Five blank lines, then a line of section shape: the scan returns (None, None)
C11_Witness ==
    /\ pc = "hd_done"
    /\ Len(Split(text, "\n")) >= 6
    /\ NonBlank(Take(Split(text, "\n"), 5)) = << >>
    /\ MatchSection(Strip(Split(text, "\n")[6])) # None
    /\ hd = NoHeading

\* A line that holds only an integer
IsPageNumberLine(line) ==
    Strip(line) # << >> /\ \A k \in 1..Len(Strip(line)) : Strip(line)[k] \in Digit

\* A line that holds only "Page N of M"
IsFooterLine(line) ==
    LET l == Strip(line)
        b == SkipWhile(l, 6, Digit)
        c == SkipWhile(l, b + 4, Digit)
    IN  /\ HasAt(l, 1, << "P", "a", "g", "e", " " >>)
        /\ b > 6
        /\ HasAt(l, b, << " ", "o", "f", " " >>)
        /\ c > b + 4
        /\ c = Len(l) + 1

\* A non-empty line of letters
IsWordLine(line) == line # << >> /\ \A k \in 1..Len(line) : line[k] \in Letter

\* Whether part occurs in s
Contains(s, part) == \E i \in 1..(Len(s) + 1) : HasAt(s, i, part)

\* C12: for a text of three lines, a page number or a "Page N of M" footer
\* between two lines of words, the cleaned text holds the two word lines and
\* nothing of the middle line (no digit).
C12_PageLinesRemoved ==
    pc \in {"cleaned", "recleaned"} =>
        LET lines == Split(text, "\n")
        IN  (/\ Len(lines) = 3
             /\ IsWordLine(lines[1])
             /\ IsWordLine(lines[3])
             /\ (IsPageNumberLine(lines[2]) \/ IsFooterLine(lines[2]))) =>
                /\ Contains(cleaned[1], lines[1])
                /\ Contains(cleaned[1], lines[3])
                /\ \A k \in 1..Len(cleaned[1]) : cleaned[1][k] \notin Digit

=============================================================================
